---- MODULE Spec2Model ----
(***************************************************************************)
(* The file delivery pipeline of bot.py: main's scan loop, process_file,   *)
(* split_and_send_zip, send_file and the ledger (file_history) with its    *)
(* persisted copy, together with the environment the pipeline runs in:     *)
(* the monitored files, the Telegram transport, the admin reset of         *)
(* flask_backend.py and process restarts.                                  *)
(***************************************************************************)
EXTENDS Integers, Sequences, FiniteSets, TLC

(***************************************************************************)
(* Bounds of the model.                                                    *)
(***************************************************************************)
MaxCycles == 2        \* scan cycles started per run of the model
MaxEdits == 1         \* content changes and deletions of monitored files
MaxLen == 5           \* bytes of an artifact given to the chunk loop run on its own
MaxChunk == 3         \* largest chunk size of the chunk loop run on its own
MaxEvents == 1        \* things that happen to the running bot from outside:
                      \* files rewritten or deleted, calls of the admin routes,
                      \* failed writes of the data files

(***************************************************************************)
(* Program constants.                                                      *)
(***************************************************************************)
MAX_FILE_SIZE == 45 * 1024 * 1024
max_retries == 3
retry_delay == 5
RetryAfterDefault == 1

(***************************************************************************)
(* Paths.  A path is a directory and a base name; a base name is the       *)
(* sequence of its dot-separated components, so "a.txt.zip.001" is         *)
(* <<"a","txt","zip","001">>.  Directory 0 is the monitored folder, the    *)
(* directories 1, 2, ... are scratch directories.                          *)
(***************************************************************************)
MonitoredDir == 0
Names == {<<"a", "txt">>, <<"b", "zip">>}
Path(d, n) == [dir |-> d, name |-> n]
MonPaths == {Path(MonitoredDir, n) : n \in Names}
NoPath == Path(-1, <<>>)

basename(path) == path.name
join(d, n) == Path(d, n)
Lower(s) == IF s = "ZIP" THEN "zip" ELSE IF s = "TXT" THEN "txt" ELSE s
EndsWith(path, ext) ==
    /\ Len(path.name) >= 2
    /\ Lower(path.name[Len(path.name)]) = ext
WithSuffix(n, ext) == Append(n, ext)
Pad3(k) == IF k = 1 THEN "001" ELSE IF k = 2 THEN "002" ELSE IF k = 3 THEN "003"
           ELSE IF k = 4 THEN "004" ELSE "005"

(***************************************************************************)
(* File contents.  A content is identified by a number; its MD5 digest is  *)
(* taken to be collision free on these contents.  The last content is the  *)
(* one that exceeds the chunk threshold.                                   *)
(***************************************************************************)
Contents == {1, 2, 3}
BigContent == CHOOSE c \in Contents : \A d \in Contents : d <= c
ContentSize(c) == IF c = BigContent THEN MAX_FILE_SIZE + 1 ELSE c
Digest(c) == <<"md5", c>>
\* sizes a zip container of a source of size s can have
ZipSizes(s) == IF s > MAX_FILE_SIZE THEN {MAX_FILE_SIZE, s + 1} ELSE {s + 1}

(***************************************************************************)
(* Finite maps with a growing domain (Python dicts).                       *)
(***************************************************************************)
EmptyMap == [x \in {} |-> 0]
Upsert(f, k, v) == [x \in (DOMAIN f) \cup {k} |-> IF x = k THEN v ELSE f[x]]
Remove(f, k) == [x \in (DOMAIN f) \ {k} |-> f[x]]
Max(S) == CHOOSE x \in S : \A y \in S : y <= x
Min(a, b) == IF a <= b THEN a ELSE b

VARIABLES
    \* the module constants of bot.py, read from config.ini at import
    COMPRESSION_LEVEL, ENABLE_ENCRYPTION, ENABLE_FORWARD, ALLOWED_EXTENSIONS,
    ZIP_PASSWORD, FORWARD_CHAT_ID,
    \* globals of bot.py
    file_history, file_counter, file_size_cache, error_messages,
    \* position and locals of main / process_file / split_and_send_zip / send_file
    pc, sorted_files, pf, sp, sf,
    \* durable storage and the world outside the process
    disk_history, fs, notices,
    \* bookkeeping of the model
    cycle, edits, calls, delivered, tmp_dirs, sent,
    \* the persisted size cache, the ledger as it was at the last admin reset,
    \* and the state of the chunk loop run on its own
    disk_cache, pre_reset, split,
    \* config/config.ini as it is on disk, and the number of things that
    \* have happened to the running bot from outside
    config_ini, events

cfgvars == <<COMPRESSION_LEVEL, ENABLE_ENCRYPTION, ENABLE_FORWARD, ALLOWED_EXTENSIONS,
             ZIP_PASSWORD, FORWARD_CHAT_ID>>
memvars == <<file_history, file_counter, file_size_cache, error_messages>>
vars == <<COMPRESSION_LEVEL, ENABLE_ENCRYPTION, ENABLE_FORWARD, ALLOWED_EXTENSIONS,
          ZIP_PASSWORD, FORWARD_CHAT_ID,
          file_history, file_counter, file_size_cache, error_messages,
          pc, sorted_files, pf, sp, sf, disk_history, fs, notices,
          cycle, edits, calls, delivered, tmp_dirs, sent,
          disk_cache, pre_reset, split, config_ini, events>>

(***************************************************************************)
(* Values of the locals while no call is active.                           *)
(***************************************************************************)
NoHeader == -1
NoHash == Digest(0)
NoPf == [file_path |-> NoPath, file_hash |-> NoHash, original_size |-> 0,
         temp_dir |-> 0, send_path |-> NoPath, send_size |-> 0,
         mode |-> "none", success |-> FALSE, file_size |-> 0,
         history0 |-> EmptyMap, sent0 |-> EmptyMap, container |-> "none",
         files |-> {}]
NoSp == [file_path |-> NoPath, base_name |-> <<>>, original_size |-> 0,
         temp_dir |-> 0, zip_path |-> NoPath, file_number |-> 0,
         total_parts |-> 0, raised |-> FALSE, container |-> "none",
         skip_zip |-> FALSE, files |-> {}, position |-> 0, inode |-> 0]
NoSf == [file_path |-> NoPath, part_number |-> 0, total_parts |-> 0,
         attempt |-> 0, uploads |-> 0, rates |-> 0, errors |-> 0,
         lastFail |-> "none", header |-> NoHeader, slept |-> 0,
         result |-> "none", forward |-> "none"]
NoInstruction == [count |-> 0, pattern |-> <<>>, target |-> <<>>]
NoDelivered == [single |-> FALSE, parts |-> {}, instructions |-> FALSE,
                secondary |-> FALSE, documents |-> {}, instruction |-> NoInstruction]
EmptyDisk == [valid |-> TRUE, data |-> EmptyMap]
NoReset == [reset |-> FALSE, ledger |-> EmptyMap, cycle |-> 0]
NoSplit == [artifact |-> <<>>, chunk_size |-> 0, position |-> 0, file_number |-> 0,
            total_parts |-> 0, chunks |-> <<>>, captions |-> <<>>, done |-> FALSE]

(***************************************************************************)
(* The configurations the model is run with: compression_level,            *)
(* enable_encryption, enable_forward, allowed_extensions, zip_password,    *)
(* forward_chat_id.                                                        *)
(***************************************************************************)
\* line 53: forward_chat_id when config.ini does not set it
NoForwardChat == 0
Configurations ==
    { <<"default", FALSE, FALSE, {}, "", NoForwardChat>>,
      <<"none", FALSE, TRUE, {}, "", NoForwardChat + 1>>,
      <<"default", TRUE, TRUE, {"txt"}, "secret", NoForwardChat>>,
      <<"none", TRUE, FALSE, {}, "secret", NoForwardChat>>,
      <<"default", TRUE, FALSE, {}, "", NoForwardChat>>,
      <<"default", TRUE, FALSE, {}, "secret", NoForwardChat>> }

\* lines 43-67: the module constants of bot.py are read from config.ini
\* when the module is imported
ReadConfig(c) ==
    /\ COMPRESSION_LEVEL = c[1]
    /\ ENABLE_ENCRYPTION = c[2]
    /\ ENABLE_FORWARD = c[3]
    /\ ALLOWED_EXTENSIONS = c[4]
    /\ ZIP_PASSWORD = c[5]
    /\ FORWARD_CHAT_ID = c[6]

\* the same at the import by a new process
ImportConfig(c) ==
    /\ COMPRESSION_LEVEL' = c[1]
    /\ ENABLE_ENCRYPTION' = c[2]
    /\ ENABLE_FORWARD' = c[3]
    /\ ALLOWED_EXTENSIONS' = c[4]
    /\ ZIP_PASSWORD' = c[5]
    /\ FORWARD_CHAT_ID' = c[6]

(***************************************************************************)
(* Init: the module globals of bot.py before main runs, a configuration,   *)
(* an empty data directory and the monitored folder.                       *)
(***************************************************************************)
InitPipeline ==
    /\ config_ini \in Configurations
    /\ ReadConfig(config_ini)
    /\ events = 0
    /\ file_history = EmptyMap
    /\ file_counter = 0
    /\ file_size_cache = EmptyMap
    /\ error_messages = EmptyMap
    /\ pc = "start"
    /\ sorted_files = <<>>
    /\ pf = NoPf
    /\ sp = NoSp
    /\ sf = NoSf
    /\ disk_history = EmptyDisk
    /\ fs = [p \in MonPaths |-> IF p.name = <<"a", "txt">> THEN 1 ELSE BigContent]
    /\ notices = [visible |-> {}, posted |-> 0]
    /\ cycle = 0
    /\ edits = 0
    /\ calls = {}
    /\ delivered = NoDelivered
    /\ tmp_dirs = 0
    /\ sent = EmptyMap
    /\ disk_cache = EmptyDisk
    /\ pre_reset = NoReset

Init == InitPipeline /\ split = NoSplit

(***************************************************************************)
(* Utility functions.                                                      *)
(***************************************************************************)
\* load_data: the JSON object of the file, {} when it is missing or corrupt
load_data(disk) == IF disk.valid THEN disk.data ELSE EmptyMap

\* save_data: the file after the call; an exception is logged and swallowed
save_data(data, disk, outcome) ==
    CASE outcome = "saved" -> [valid |-> TRUE, data |-> data]
      [] outcome = "open_failed" -> disk
      [] outcome = "dump_failed" -> [valid |-> FALSE, data |-> EmptyMap]
SaveOutcomes == {"saved", "open_failed", "dump_failed"}
\* the outcomes of line 404, the write of the size cache
CacheSaveOutcomes == SaveOutcomes
\* a failed write is one of the things that happen from outside
Fault(outcome) == IF outcome = "saved" THEN 0 ELSE 1
Possible(outcomes, happened) ==
    {o \in outcomes : happened + Fault(o) <= MaxEvents}

calculate_md5(path) == Digest(fs[path])

\* whether open or os.path.getsize finds the file: a monitored file can have
\* been deleted, a scratch file of the current call is in its directory
exists(path) == path.dir # MonitoredDir \/ path \in DOMAIN fs

\* os.path.getsize of a monitored file or of the scratch archive of this call
getsize(path) ==
    IF path.dir = MonitoredDir THEN ContentSize(fs[path]) ELSE pf.send_size

\* a counter that starts at zero whatever the ledger holds
RecoveredCounterZero(history) == 0
\* line 419: the counter recovered from the loaded ledger
RecoveredCounter(history) ==
    IF DOMAIN history = {} THEN 0
    ELSE Max({history[p].file_id : p \in DOMAIN history})

\* tempfile.TemporaryDirectory (lines 205, 327): a directory with a name no
\* earlier scratch directory had; made is the number of directories made so far
TemporaryDirectory(made) == made + 1

\* a ledger that is never searched for the hash
HashKnownNever(history, file_hash) == FALSE
\* a search that looks at the newest record only
HashKnownNewestOnly(history, file_hash) ==
    \E q \in DOMAIN history :
        /\ history[q].file_id = RecoveredCounter(history)
        /\ history[q].hash = file_hash
\* line 319
HashKnown(history, file_hash) ==
    \E q \in DOMAIN history : history[q].hash = file_hash

\* line 323
ExtensionRefused(base_name) ==
    /\ ALLOWED_EXTENSIONS # {}
    /\ ~ \E ext \in ALLOWED_EXTENSIONS : EndsWith(Path(MonitoredDir, base_name), ext)

\* a choice of the artifact that takes every .zip source as it is
SentAsIsEveryZip(file_path) ==
    \/ COMPRESSION_LEVEL = "none"
    \/ EndsWith(file_path, "zip")

\* line 328
SentAsIs(file_path) ==
    \/ COMPRESSION_LEVEL = "none"
    \/ (EndsWith(file_path, "zip") /\ ~ENABLE_ENCRYPTION)

\* lines 255-260, 334-340: the container the archiver writes, an AES
\* encrypted one (pyzipper.AESZipFile with the passphrase) or a plain one
Container == IF ENABLE_ENCRYPTION THEN "aes" ELSE "zip"

\* lines 328-340: what the file at send_path holds, the bytes of the source
\* file or a container of it
Artifact(as_is) == IF as_is THEN "source" ELSE Container

\* line 342
StaleOrNew(history, file_path, file_hash) ==
    \/ file_path \notin DOMAIN history
    \/ history[file_path].hash # file_hash

\* a scratch directory whose files outlive the with block
TempDirKept(files) == files
\* tempfile.TemporaryDirectory (lines 205, 327) at the exit of its with
\* block, by return or by exception: the directory is removed with the files
\* in it; files are the files of the directory, the result is what is left
TempDirExit(files) == {}

\* line 235: split_and_send_zip removes zip_path after a complete delivery
RemovesZip(file_path, skip_zip) ==
    ~skip_zip /\ COMPRESSION_LEVEL # "none" /\ ~EndsWith(file_path, "zip")

\* lines 247-261
create_zip_archive(file_path, base_name, temp_dir, skip_zip) ==
    IF ~skip_zip /\ COMPRESSION_LEVEL # "none" /\ ~EndsWith(file_path, "zip")
    THEN join(temp_dir, WithSuffix(base_name, "zip"))
    ELSE file_path

\* lines 247-261: what the file at zip_path holds, given what file_path holds
ArchiveContent(file_path, holds, skip_zip) ==
    IF ~skip_zip /\ COMPRESSION_LEVEL # "none" /\ ~EndsWith(file_path, "zip")
    THEN Container
    ELSE holds

\* a count that forgets the short last chunk
TotalPartsFloor(size, chunk_size) == size \div chunk_size
\* line 211
TotalParts(size, chunk_size) ==
    (size \div chunk_size) + (IF size % chunk_size # 0 THEN 1 ELSE 0)

\* line 170
RetryAfter(header) == IF header = NoHeader THEN RetryAfterDefault ELSE header
Headers == {NoHeader, 7}

\* permutations of a set, as sequences
Perms(S) == {s \in [1..Cardinality(S) -> S] : \A i, j \in 1..Cardinality(S) : i # j => s[i] # s[j]}
\* line 448: sorted(file_size_cache, key=file_size_cache.get)
SortedBySize(cache) ==
    {s \in Perms(DOMAIN cache) : \A i, j \in 1..Len(s) : i < j => cache[s[i]] <= cache[s[j]]}

(***************************************************************************)
(* main: configuration validation and start-up (lines 70-75, 407-422).     *)
(***************************************************************************)
\* line 66: enable_cache, taken at its default
ENABLE_CACHE == TRUE

\* a validation that does not look at the passphrase
ConfigValidCompressionOnly == ~(ENABLE_ENCRYPTION /\ COMPRESSION_LEVEL = "none")
\* lines 70-75: neither ValueError is raised
ConfigValid ==
    /\ ~(ENABLE_ENCRYPTION /\ COMPRESSION_LEVEL = "none")
    /\ ~(ENABLE_ENCRYPTION /\ ZIP_PASSWORD = "")

Startup ==
    /\ pc = "start"
    /\ IF ~ConfigValid
       THEN /\ pc' = "config_error"
            /\ UNCHANGED <<file_history, file_counter, file_size_cache>>
       ELSE /\ file_history' = load_data(disk_history)
            /\ file_counter' = RecoveredCounter(load_data(disk_history))
            /\ file_size_cache' = IF ENABLE_CACHE THEN load_data(disk_cache)
                                  ELSE file_size_cache
            /\ pc' = "cycle"
    /\ UNCHANGED <<cfgvars, error_messages, sorted_files, pf, sp, sf,
                   disk_history, fs, notices, cycle, edits, calls, delivered, tmp_dirs, sent,
                   disk_cache, pre_reset, split, config_ini, events>>

(***************************************************************************)
(* main: one iteration of the scan loop up to the candidate list           *)
(* (lines 441-448) with build_file_size_cache (lines 396-405).             *)
(***************************************************************************)
build_file_size_cache(cache) ==
    [p \in (DOMAIN cache) \cup (DOMAIN fs) |->
        IF p \in DOMAIN fs THEN ContentSize(fs[p]) ELSE cache[p]]

\* lines 441-448: the cache is rebuilt and saved, the candidates are sorted;
\* counted is the number the cycle is counted as
ScanCycle(counted) ==
    /\ pc = "cycle"
    /\ cycle' = counted
    /\ file_size_cache' = build_file_size_cache(file_size_cache)
    /\ \E outcome \in Possible(CacheSaveOutcomes, events) :
          /\ disk_cache' = save_data(file_size_cache', disk_cache, outcome)
          /\ events' = events + Fault(outcome)
    /\ sorted_files' \in SortedBySize(file_size_cache')
    /\ pc' = "next"
    /\ UNCHANGED <<cfgvars, file_history, file_counter, error_messages, pf, sp, sf,
                   disk_history, fs, notices, edits, calls, delivered, tmp_dirs, sent,
                   pre_reset, split, config_ini>>

CycleStart ==
    /\ cycle < MaxCycles
    /\ ScanCycle(cycle + 1)

\* lines 458-461: the candidate list is exhausted, sleep until the next cycle
CycleEnd ==
    /\ pc = "next"
    /\ sorted_files = <<>>
    /\ pc' = "cycle"
    /\ pf' = NoPf
    /\ calls' = {}
    /\ delivered' = NoDelivered
    /\ UNCHANGED <<cfgvars, memvars, sorted_files, sp, sf, disk_history, fs,
                   notices, cycle, edits, tmp_dirs, sent,
                   disk_cache, pre_reset, split, config_ini, events>>

\* lines 466-468: an exception escaping process_file ends the cycle
RaiseToMain ==
    /\ pc' = "cycle"
    /\ sorted_files' = <<>>
    /\ pf' = NoPf
    /\ sp' = NoSp
    /\ calls' = {}
    /\ delivered' = NoDelivered

(***************************************************************************)
(* The rate limiters (lines 106-107).  A limiter is held inside its        *)
(* "async with" block: media_limiter from line 148 to line 167,            *)
(* message_limiter at lines 279-280, 282-283 and 287-288.  A transport     *)
(* call is recorded with the limiter held where it is made.                *)
(***************************************************************************)
LimiterHeld ==
    CASE pc \in {"sf_upload", "sf_forward", "sf_delete"} -> "media"
      [] pc \in {"sp_instructions", "sp_instructions_forward", "sp_error"} -> "message"
      [] OTHER -> "none"
Transport(kind) == [kind |-> kind, pool |-> LimiterHeld]

(***************************************************************************)
(* send_file (lines 141-183).                                              *)
(***************************************************************************)
SfStart(path, part, total) ==
    [NoSf EXCEPT !.file_path = path, !.part_number = part, !.total_parts = total,
                 !.result = "running"]

\* a loop that does not advance to the next part
SameFileNumber(file_number) == file_number
\* line 230
NextFileNumber(file_number) == file_number + 1

\* send_file returns to its caller: process_file (lines 355-356) or the chunk
\* loop of split_and_send_zip (lines 225-231)
SfReturn(result) ==
    IF pf.mode = "single"
    THEN /\ pf' = [pf EXCEPT !.success = result]
         /\ pc' = "pf_size"
         /\ UNCHANGED <<sp, file_counter>>
    ELSE IF result
         THEN /\ sp' = [sp EXCEPT !.file_number = NextFileNumber(@)]
              /\ file_counter' = file_counter + 1
              /\ pc' = "sp_chunk"
              /\ UNCHANGED pf
         ELSE /\ pf' = [pf EXCEPT !.success = FALSE, !.file_size = 0]
              /\ pc' = "pf_finish"
              /\ sp' = [sp EXCEPT !.files = TempDirExit(@)]
              /\ UNCHANGED file_counter

\* an exception leaves send_file: it escapes process_file (single unit) or is
\* caught by split_and_send_zip (line 240)
SfRaise ==
    IF pf.mode = "single"
    THEN RaiseToMain /\ sf' = NoSf
    ELSE /\ pc' = "sp_error"
         /\ sf' = [sf EXCEPT !.result = "raised"]
         /\ sp' = [sp EXCEPT !.raised = TRUE, !.files = TempDirExit(@)]
         /\ calls' = calls \cup {Transport("message")}
         /\ UNCHANGED <<sorted_files, pf, delivered>>

\* the duration slept after a 429 response (lines 170-172)
RateLimitSleep(header) == RetryAfter(header)
\* a 429 response that leaves the attempt number as it is
AttemptKept(attempt) == attempt
\* the attempt the loop continues with after a 429 response (line 146)
AttemptAfterRateLimit(attempt) == attempt + 1

\* the except clause (lines 168-181) for an error of the given kind raised in
\* the try block of the current attempt; cur is send_file's state at the raise
SfExcept(cur, kind, header) ==
    IF kind = "rate"
    THEN /\ sf' = [cur EXCEPT !.attempt = AttemptAfterRateLimit(@), !.rates = @ + 1,
                              !.lastFail = "rate",
                              !.header = header,
                              !.slept = RateLimitSleep(header),
                              !.result = IF AttemptAfterRateLimit(cur.attempt) < max_retries
                                         THEN "running" ELSE "false"]
         /\ IF AttemptAfterRateLimit(cur.attempt) < max_retries
            THEN pc' = "sf_upload" /\ UNCHANGED <<pf, sp, file_counter>>
            ELSE SfReturn(FALSE)
    ELSE IF cur.attempt < max_retries - 1
         THEN /\ sf' = [cur EXCEPT !.attempt = @ + 1, !.errors = @ + 1,
                                   !.lastFail = "error", !.header = NoHeader,
                                   !.slept = retry_delay]
              /\ pc' = "sf_upload"
              /\ UNCHANGED <<pf, sp, file_counter>>
         ELSE /\ sf' = [cur EXCEPT !.errors = @ + 1, !.lastFail = "error",
                                   !.header = NoHeader, !.slept = 0]
              /\ pc' = "sf_notice"
              /\ UNCHANGED <<pf, sp, file_counter>>

ErrorKinds == {"rate", "error"}
HeadersOf(kind) == IF kind = "rate" THEN Headers ELSE {NoHeader}

\* line 153: the document cannot be opened, as the monitored file sent as it
\* is was deleted; FileNotFoundError is no TelegramError, so the except clause
\* of line 168 lets it through: it leaves send_file and process_file with no
\* transport call made and no notice posted
SfOpenFails ==
    /\ pc = "sf_upload"
    /\ ~exists(sf.file_path)
    /\ RaiseToMain
    /\ sf' = NoSf
    /\ UNCHANGED <<cfgvars, memvars, disk_history, fs, notices, cycle, edits,
                   tmp_dirs, sent, disk_cache, pre_reset, split, config_ini, events>>

\* lines 148-158: the document is uploaded
SfUploadOk ==
    /\ pc = "sf_upload"
    /\ exists(sf.file_path)
    /\ sf' = [sf EXCEPT !.uploads = @ + 1, !.lastFail = "none", !.header = NoHeader,
                        !.slept = 0]
    /\ calls' = calls \cup {Transport("document")}
    /\ delivered' = IF pf.mode = "single"
                    THEN [delivered EXCEPT !.single = TRUE,
                                           !.documents = @ \cup {sf.file_path}]
                    ELSE [delivered EXCEPT !.parts = @ \cup {sf.part_number},
                                           !.documents = @ \cup {sf.file_path}]
    /\ pc' = IF ENABLE_FORWARD THEN "sf_forward" ELSE "sf_delete"
    /\ UNCHANGED <<cfgvars, memvars, sorted_files, pf, sp, disk_history, fs, notices,
                   cycle, edits, tmp_dirs, sent,
                   disk_cache, pre_reset, split, config_ini, events>>

\* lines 154, 168-181: the upload raises a TelegramError
SfUploadFail ==
    /\ pc = "sf_upload"
    /\ exists(sf.file_path)
    /\ calls' = calls \cup {Transport("document")}
    /\ \E kind \in ErrorKinds : \E header \in HeadersOf(kind) :
          SfExcept([sf EXCEPT !.uploads = @ + 1], kind, header)
    /\ UNCHANGED <<cfgvars, file_history, file_size_cache, error_messages, sorted_files,
                   disk_history, fs, notices, cycle, edits, delivered, tmp_dirs, sent,
                   disk_cache, pre_reset, split, config_ini, events>>

\* lines 160-161, 185-197: forward_message; a TelegramError is logged and
\* swallowed, a bot removed from the chat does not forward
ForwardOutcomes == {"forwarded", "kicked", "error"}
\* a forward_message that lets its TelegramError through
ForwardRaisesOnError(outcome) == outcome = "error"
\* lines 196-197: forward_message catches the TelegramError of its calls
ForwardRaises(outcome) == FALSE

SfForward ==
    /\ pc = "sf_forward"
    /\ calls' = calls \cup {Transport("forward")}
    /\ \E outcome \in ForwardOutcomes :
          IF ForwardRaises(outcome)
          THEN SfExcept([sf EXCEPT !.forward = outcome], "error", NoHeader)
          ELSE /\ sf' = [sf EXCEPT !.forward = outcome]
               /\ pc' = "sf_delete"
               /\ UNCHANGED <<pf, sp, file_counter>>
    /\ UNCHANGED <<cfgvars, file_history, file_size_cache, error_messages, sorted_files,
                   disk_history, fs,
                   notices, cycle, edits, delivered, tmp_dirs, sent,
                   disk_cache, pre_reset, split, config_ini, events>>

\* lines 163-167 when no error notice is stored under file_path
SfNoStaleNotice ==
    /\ pc = "sf_delete"
    /\ sf.file_path \notin DOMAIN error_messages
    /\ sf' = [sf EXCEPT !.result = "true"]
    /\ SfReturn(TRUE)
    /\ UNCHANGED <<cfgvars, file_history, file_size_cache, error_messages, sorted_files,
                   disk_history, fs, notices, cycle, edits, calls, delivered, tmp_dirs, sent,
                   disk_cache, pre_reset, split, config_ini, events>>

\* lines 163-167: the stale error notice is deleted
SfDeleteOk ==
    /\ pc = "sf_delete"
    /\ sf.file_path \in DOMAIN error_messages
    /\ calls' = calls \cup {Transport("delete")}
    /\ notices' = [notices EXCEPT !.visible =
                      {n \in @ : n.id # error_messages[sf.file_path]}]
    /\ error_messages' = Remove(error_messages, sf.file_path)
    /\ sf' = [sf EXCEPT !.result = "true"]
    /\ SfReturn(TRUE)
    /\ UNCHANGED <<cfgvars, file_history, file_size_cache, sorted_files,
                   disk_history, fs, cycle, edits, delivered, tmp_dirs, sent,
                   disk_cache, pre_reset, split, config_ini, events>>

\* line 164 raises a TelegramError, handled by the except clause of the attempt
SfDeleteFail ==
    /\ pc = "sf_delete"
    /\ sf.file_path \in DOMAIN error_messages
    /\ calls' = calls \cup {Transport("delete")}
    /\ \E kind \in ErrorKinds : \E header \in HeadersOf(kind) :
          SfExcept(sf, kind, header)
    /\ UNCHANGED <<cfgvars, file_history, file_size_cache, error_messages, sorted_files,
                   disk_history, fs, notices, cycle, edits, delivered, tmp_dirs, sent,
                   disk_cache, pre_reset, split, config_ini, events>>

\* the key send_file stores the notice under (line 180)
NoticeKey(file_path) == file_path

\* lines 178-181: the error notice is posted and remembered
SfNoticeOk ==
    /\ pc = "sf_notice"
    /\ calls' = calls \cup {Transport("message")}
    /\ LET id == notices.posted + 1 IN
       /\ notices' = [visible |-> notices.visible \cup
                          {[id |-> id, kind |-> "send_file", item |-> sf.file_path,
                            monitored |-> pf.file_path]},
                      posted |-> id]
       /\ error_messages' = Upsert(error_messages, NoticeKey(sf.file_path), id)
    /\ sf' = [sf EXCEPT !.result = "false"]
    /\ SfReturn(FALSE)
    /\ UNCHANGED <<cfgvars, file_history, file_size_cache, sorted_files,
                   disk_history, fs, cycle, edits, delivered, tmp_dirs, sent,
                   disk_cache, pre_reset, split, config_ini, events>>

\* line 178 raises inside the except clause: the error leaves send_file
SfNoticeFail ==
    /\ pc = "sf_notice"
    /\ SfRaise
    /\ UNCHANGED <<cfgvars, memvars, disk_history, fs, notices, cycle, edits, tmp_dirs, sent,
                   disk_cache, pre_reset, split, config_ini, events>>

(***************************************************************************)
(* process_file (lines 310-381).                                           *)
(***************************************************************************)
\* lines 313-356 up to the first transport call: hashing, the two skip
\* checks, the archiver and the choice between one unit and a split
\* lines 314, 136: the candidate is not on the filesystem any more; open
\* raises FileNotFoundError, which no handler of process_file catches
PfVanished ==
    /\ pc = "next"
    /\ sorted_files # <<>>
    /\ Head(sorted_files) \notin DOMAIN fs
    /\ RaiseToMain
    /\ sf' = NoSf
    /\ UNCHANGED <<cfgvars, memvars, disk_history, fs, notices, cycle, edits,
                   tmp_dirs, sent, disk_cache, pre_reset, split, config_ini, events>>

PfBegin ==
    /\ pc = "next"
    /\ sorted_files # <<>>
    /\ Head(sorted_files) \in DOMAIN fs
    /\ LET file_path == Head(sorted_files)
           file_hash == calculate_md5(file_path)
           original_size == ContentSize(fs[file_path])
           base_name == basename(file_path)
           entered == [NoPf EXCEPT !.file_path = file_path, !.file_hash = file_hash,
                                   !.original_size = original_size,
                                   !.history0 = file_history, !.sent0 = sent]
       IN
       /\ sorted_files' = Tail(sorted_files)
       /\ tmp_dirs' = IF HashKnown(file_history, file_hash) \/ ExtensionRefused(base_name)
                      THEN tmp_dirs ELSE tmp_dirs + 1
       /\ calls' = {}
       /\ delivered' = NoDelivered
       /\ sp' = NoSp
       /\ IF HashKnown(file_history, file_hash)
          THEN /\ pf' = [entered EXCEPT !.mode = "known_hash"]
               /\ sf' = NoSf
               /\ pc' = "next"
          ELSE IF ExtensionRefused(base_name)
          THEN /\ pf' = [entered EXCEPT !.mode = "refused"]
               /\ sf' = NoSf
               /\ pc' = "next"
          ELSE \E zip_size \in ZipSizes(original_size) :
               LET temp_dir == TemporaryDirectory(tmp_dirs)
                   send_path == IF SentAsIs(file_path) THEN file_path
                                ELSE join(temp_dir, WithSuffix(base_name, "zip"))
                   send_size == IF SentAsIs(file_path) THEN 0 ELSE zip_size
                   size == IF send_path.dir = MonitoredDir THEN original_size
                           ELSE send_size
                   archived == [entered EXCEPT !.temp_dir = temp_dir,
                                               !.send_path = send_path,
                                               !.send_size = send_size,
                                               !.container =
                                                   Artifact(SentAsIs(file_path)),
                                               !.files =
                                                   IF SentAsIs(file_path) THEN {}
                                                   ELSE {send_path}]
               IN
               IF ~StaleOrNew(file_history, file_path, file_hash)
               THEN /\ pf' = [archived EXCEPT !.mode = "unchanged",
                                               !.files = TempDirExit(@)]
                    /\ sf' = NoSf
                    /\ pc' = "next"
               ELSE IF size > MAX_FILE_SIZE
               THEN /\ pf' = [archived EXCEPT !.mode = "split"]
                    /\ sf' = NoSf
                    /\ pc' = "sp_begin"
               ELSE /\ pf' = [archived EXCEPT !.mode = "single"]
                    /\ sf' = SfStart(send_path, 0, 0)
                    /\ pc' = "sf_upload"
    /\ UNCHANGED <<cfgvars, memvars, disk_history, fs, notices, cycle, edits, sent,
                   disk_cache, pre_reset, split, config_ini, events>>

\* line 356: the size of the file that was sent, read after send_file has
\* returned whatever it returned
PfSize ==
    /\ pc = "pf_size"
    /\ exists(pf.send_path)
    /\ pf' = [pf EXCEPT !.file_size = getsize(pf.send_path)]
    /\ pc' = "pf_finish"
    /\ UNCHANGED <<cfgvars, memvars, sorted_files, sp, sf, disk_history, fs, notices,
                   cycle, edits, calls, delivered, tmp_dirs, sent,
                   disk_cache, pre_reset, split, config_ini, events>>

\* line 356 raises FileNotFoundError: the monitored file sent as it is was
\* deleted; the error escapes process_file
PfSizeFails ==
    /\ pc = "pf_size"
    /\ ~exists(pf.send_path)
    /\ RaiseToMain
    /\ sf' = NoSf
    /\ UNCHANGED <<cfgvars, memvars, disk_history, fs, notices, cycle, edits,
                   tmp_dirs, sent, disk_cache, pre_reset, split, config_ini, events>>

\* a record that does not carry the hash of the source file
FileRecordWithoutHash(file_hash, file_id, original_size, file_size) ==
    [hash |-> NoHash, file_id |-> file_id, file_size |-> original_size,
     processed_size |-> file_size]
\* the ledger record written at lines 364-375
FileRecord(file_hash, file_id, original_size, file_size) ==
    [hash |-> file_hash, file_id |-> file_id, file_size |-> original_size,
     processed_size |-> file_size]

\* line 359: the counter after a successful delivery
NextFileId(counter) == counter + 1

\* a commit that does not look at the outcome of the delivery
CommitAlways(success) == TRUE
\* line 358: whether the ledger is written
CommitDecision(success) == success

\* lines 358-381: commit to the ledger and persist it, or report the failure
PfFinish ==
    /\ pc = "pf_finish"
    /\ IF CommitDecision(pf.success)
       THEN /\ file_counter' = NextFileId(file_counter)
            /\ file_history' = Upsert(file_history, pf.file_path,
                                  FileRecord(pf.file_hash, file_counter', pf.original_size,
                                             pf.file_size))
            /\ \E outcome \in Possible(SaveOutcomes, events) :
                  /\ disk_history' = save_data(file_history', disk_history, outcome)
                  /\ events' = events + Fault(outcome)
       ELSE UNCHANGED <<file_history, file_counter, disk_history, events>>
    /\ sent' = IF pf.success THEN Upsert(sent, pf.file_path, pf.file_hash) ELSE sent
    /\ pc' = "next"
    /\ sp' = NoSp
    /\ sf' = NoSf
    /\ pf' = [pf EXCEPT !.files = TempDirExit(@)]
    /\ UNCHANGED <<cfgvars, file_size_cache, error_messages, sorted_files,
                   fs, notices, cycle, edits, calls, delivered, tmp_dirs,
                   disk_cache, pre_reset, split, config_ini>>

(***************************************************************************)
(* split_and_send_zip (lines 199-243).                                     *)
(***************************************************************************)
\* lines 203-204: file_path is a monitored file that was deleted, getsize
\* raises inside the try block and the handler of line 240 takes over
SplitBeginFails ==
    /\ pc = "sp_begin"
    /\ ~exists(pf.send_path)
    /\ sp' = [NoSp EXCEPT !.file_path = pf.send_path,
                          !.base_name = basename(pf.send_path),
                          !.raised = TRUE]
    /\ pc' = "sp_error"
    /\ UNCHANGED <<cfgvars, memvars, sorted_files, pf, sf, disk_history, fs, notices,
                   cycle, edits, calls, delivered, tmp_dirs, sent,
                   disk_cache, pre_reset, split, config_ini, events>>

\* lines 203-213: the sizes are read, the scratch directory is made and
\* zip_path is opened
SplitBegin ==
    /\ pc = "sp_begin"
    /\ exists(pf.send_path)
    /\ tmp_dirs' = tmp_dirs + 1
    /\ LET temp_dir == TemporaryDirectory(tmp_dirs)
           file_path == pf.send_path
           skip_zip == EndsWith(pf.send_path, "zip")
           base_name == basename(file_path)
           zip_path == create_zip_archive(file_path, base_name, temp_dir, skip_zip)
       IN sp' = [file_path |-> file_path, base_name |-> base_name,
                 original_size |-> getsize(file_path), temp_dir |-> temp_dir,
                 zip_path |-> zip_path, file_number |-> 1,
                 total_parts |-> TotalParts(getsize(zip_path), MAX_FILE_SIZE),
                 raised |-> FALSE,
                 container |-> ArchiveContent(file_path, pf.container, skip_zip),
                 skip_zip |-> skip_zip,
                 files |-> IF zip_path = file_path THEN {} ELSE {zip_path},
                 position |-> 0,
                 inode |-> IF zip_path.dir = MonitoredDir THEN fs[zip_path] ELSE 0]
    /\ pc' = "sp_chunk"
    /\ UNCHANGED <<cfgvars, memvars, sorted_files, pf, sf, disk_history, fs, notices,
                   cycle, edits, calls, delivered, sent,
                   disk_cache, pre_reset, split, config_ini, events>>

\* line 219
ChunkName(temp_dir, base_name, file_number) ==
    join(temp_dir, WithSuffix(base_name, Pad3(file_number)))

\* line 213: the size of the file behind the handle zip_file, which is the
\* scratch archive of process_file or a monitored file sent as it is
OpenSize == IF sp.zip_path.dir = MonitoredDir THEN ContentSize(sp.inode)
            ELSE pf.send_size

\* line 215: the number of bytes zip_file.read(chunk_size) returns at the
\* position of the handle
ChunkRead == Max({0, Min(MAX_FILE_SIZE, OpenSize - sp.position)})

\* lines 214-225: the next chunk is read; an empty chunk ends the loop
SplitChunk ==
    /\ pc = "sp_chunk"
    /\ IF ChunkRead = 0
       THEN /\ pc' = "sp_instructions"
            /\ UNCHANGED <<sf, sp>>
       ELSE /\ sp' = [sp EXCEPT !.files = @ \cup
                         {ChunkName(sp.temp_dir, sp.base_name, sp.file_number)},
                                !.position = @ + ChunkRead]
            /\ sf' = SfStart(ChunkName(sp.temp_dir, sp.base_name, sp.file_number),
                             sp.file_number, sp.total_parts)
            /\ pc' = "sf_upload"
    /\ UNCHANGED <<cfgvars, memvars, sorted_files, pf, disk_history, fs, notices,
                   cycle, edits, calls, delivered, tmp_dirs, sent,
                   disk_cache, pre_reset, split, config_ini, events>>

\* split_and_send_zip returns (lines 228, 239, 243)
SplitReturn(success, file_size) ==
    /\ pf' = [pf EXCEPT !.success = success, !.file_size = file_size]
    /\ pc' = "pf_finish"

\* os.remove (line 236) of a monitored file
os_remove(files, path) == IF path \in DOMAIN files THEN Remove(files, path) ELSE files

\* lines 235-239: zip_path is removed if split_and_send_zip made it, the
\* scratch directory is left and (True, original_size) is returned
SplitSuccess ==
    /\ fs' = IF RemovesZip(sp.file_path, sp.skip_zip) THEN os_remove(fs, sp.zip_path)
             ELSE fs
    /\ sp' = [sp EXCEPT !.files = TempDirExit(
                 IF RemovesZip(sp.file_path, sp.skip_zip) THEN @ \ {sp.zip_path} ELSE @)]
    /\ SplitReturn(TRUE, sp.original_size)

\* lines 265-278: what the instruction text says, the number of parts to
\* download and the commands "copy /b P.* T" and "cat P.* > T" with the part
\* pattern P.* and the target T
reassembly_instructions(base_name, file_number) ==
    [count |-> file_number - 1,
     pattern |-> WithSuffix(base_name, "zip"),
     target |-> WithSuffix(base_name, "zip")]

\* line 281: the instructions are sent to the secondary chat as well
ForwardsInstructions == FORWARD_CHAT_ID # NoForwardChat /\ ENABLE_FORWARD

\* lines 233, 279-280: the reassembly instructions reach the primary chat
SplitInstructionsOk ==
    /\ pc = "sp_instructions"
    /\ calls' = calls \cup {Transport("message")}
    /\ delivered' = [delivered EXCEPT
                        !.instructions = TRUE,
                        !.instruction = reassembly_instructions(sp.base_name,
                                                                sp.file_number)]
    /\ IF ForwardsInstructions
       THEN pc' = "sp_instructions_forward" /\ UNCHANGED <<pf, sp, fs>>
       ELSE SplitSuccess
    /\ UNCHANGED <<cfgvars, memvars, sorted_files, sf, disk_history, notices,
                   cycle, edits, tmp_dirs, sent,
                   disk_cache, pre_reset, split, config_ini, events>>

\* lines 281-283: the instructions reach the secondary chat
SplitInstructionsForwardOk ==
    /\ pc = "sp_instructions_forward"
    /\ calls' = calls \cup {Transport("message")}
    /\ delivered' = [delivered EXCEPT !.secondary = TRUE]
    /\ SplitSuccess
    /\ UNCHANGED <<cfgvars, memvars, sorted_files, sf, disk_history, notices,
                   cycle, edits, tmp_dirs, sent,
                   disk_cache, pre_reset, split, config_ini, events>>

\* lines 280, 283 raise: caught at line 240
SplitInstructionsFail ==
    /\ pc \in {"sp_instructions", "sp_instructions_forward"}
    /\ calls' = calls \cup {Transport("message")}
    /\ pc' = "sp_error"
    /\ sp' = [sp EXCEPT !.raised = TRUE, !.files = TempDirExit(@)]
    /\ UNCHANGED <<cfgvars, memvars, sorted_files, pf, sf, disk_history, fs, notices,
                   cycle, edits, delivered, tmp_dirs, sent,
                   disk_cache, pre_reset, split, config_ini, events>>

\* lines 240-243, 285-288: the generic error message is posted
SplitErrorMessageOk ==
    /\ pc = "sp_error"
    /\ calls' = calls \cup {Transport("message")}
    /\ notices' = [visible |-> notices.visible \cup
                       {[id |-> notices.posted + 1, kind |-> "generic",
                         item |-> Path(MonitoredDir, sp.base_name),
                         monitored |-> pf.file_path]},
                   posted |-> notices.posted + 1]
    /\ SplitReturn(FALSE, 0)
    /\ UNCHANGED <<cfgvars, memvars, sorted_files, sp, sf, disk_history, fs,
                   cycle, edits, delivered, tmp_dirs, sent,
                   disk_cache, pre_reset, split, config_ini, events>>

\* line 242 raises: the error escapes process_file
SplitErrorMessageFail ==
    /\ pc = "sp_error"
    /\ RaiseToMain
    /\ sf' = NoSf
    /\ UNCHANGED <<cfgvars, memvars, disk_history, fs, notices, cycle, edits, tmp_dirs, sent,
                   disk_cache, pre_reset, split, config_ini, events>>

(***************************************************************************)
(* The world outside the process.                                          *)
(***************************************************************************)
\* The files belong to the user, the admin routes run in another process and
\* the bot can be killed at any moment: these steps can be taken wherever
\* the bot is, also between two steps of a call.
\* lines 213-231: split_and_send_zip holds an open handle of the path
HandleOpen(p) ==
    /\ pf.mode = "split"
    /\ sp.zip_path = p
    /\ pc \in {"sp_chunk", "sf_upload", "sf_forward", "sf_delete", "sf_notice"}

\* a monitored file is rewritten with another content: in place, which a
\* handle opened before sees, or by replacing the file, which it does not
ModifyFile ==
    /\ events < MaxEvents
    /\ edits < MaxEdits
    /\ events' = events + 1
    /\ \E p \in DOMAIN fs : \E c \in Contents \ {fs[p]} :
          /\ fs' = [fs EXCEPT ![p] = c]
          /\ \/ sp' = sp
             \/ HandleOpen(p) /\ sp' = [sp EXCEPT !.inode = c]
    /\ edits' = edits + 1
    /\ UNCHANGED <<cfgvars, memvars, pc, sorted_files, pf, sf, disk_history,
                   notices, cycle, calls, delivered, tmp_dirs, sent,
                   disk_cache, pre_reset, split, config_ini>>

\* a monitored file is deleted; a handle opened before keeps the content
DeleteFile ==
    /\ events < MaxEvents
    /\ edits < MaxEdits
    /\ events' = events + 1
    /\ \E p \in DOMAIN fs : fs' = Remove(fs, p)
    /\ edits' = edits + 1
    /\ UNCHANGED <<cfgvars, memvars, pc, sorted_files, pf, sp, sf, disk_history,
                   notices, cycle, calls, delivered, tmp_dirs, sent,
                   disk_cache, pre_reset, split, config_ini>>

\* flask_backend.py clear_json_data (lines 205-235): the persisted ledger and
\* the persisted size cache are replaced by {}; the memory of the bot process
\* is not touched.  pre_reset remembers the ledger the bot held at the reset.
clear_json_data ==
    /\ events < MaxEvents
    /\ events' = events + 1
    /\ disk_history' = EmptyDisk
    /\ disk_cache' = EmptyDisk
    /\ pre_reset' = [reset |-> TRUE, ledger |-> file_history, cycle |-> cycle]
    /\ UNCHANGED <<cfgvars, memvars, pc, sorted_files, pf, sp, sf, fs, notices,
                   cycle, edits, calls, delivered, tmp_dirs, sent,
                   split, config_ini>>

\* the process is killed, wherever it is, and started again: the module
\* constants are read from config.ini as it is now (lines 43-67), the globals
\* are those of a fresh interpreter (lines 100-103), durable storage and the
\* chat are kept
Restart ==
    /\ file_history' = EmptyMap
    /\ file_counter' = 0
    /\ file_size_cache' = EmptyMap
    /\ error_messages' = EmptyMap
    /\ pc' = "start"
    /\ sorted_files' = <<>>
    /\ pf' = NoPf
    /\ sp' = NoSp
    /\ sf' = NoSf
    /\ calls' = {}
    /\ delivered' = NoDelivered
    /\ sent' = EmptyMap
    /\ pre_reset' = NoReset
    /\ UNCHANGED <<disk_history, fs, notices, cycle, edits, tmp_dirs,
                   disk_cache, split, config_ini, events>>
    /\ ImportConfig(config_ini)

\* flask_backend.py update_config (lines 54-77): config.ini, taken to hold
\* all six keys, is rewritten with the values of the form; the running bot
\* does not read it again
update_config ==
    /\ events < MaxEvents
    /\ config_ini' \in Configurations \ {config_ini}
    /\ events' = events + 1
    /\ UNCHANGED <<cfgvars, memvars, pc, sorted_files, pf, sp, sf, disk_history, fs,
                   notices, cycle, edits, calls, delivered, tmp_dirs, sent,
                   disk_cache, pre_reset, split>>

Next ==
    \/ Startup
    \/ CycleStart
    \/ CycleEnd
    \/ PfVanished
    \/ PfBegin
    \/ PfSize
    \/ PfSizeFails
    \/ PfFinish
    \/ SplitBeginFails
    \/ SplitBegin
    \/ SplitChunk
    \/ SplitInstructionsOk
    \/ SplitInstructionsForwardOk
    \/ SplitInstructionsFail
    \/ SplitErrorMessageOk
    \/ SplitErrorMessageFail
    \/ SfOpenFails
    \/ SfUploadOk
    \/ SfUploadFail
    \/ SfForward
    \/ SfNoStaleNotice
    \/ SfDeleteOk
    \/ SfDeleteFail
    \/ SfNoticeOk
    \/ SfNoticeFail
    \/ ModifyFile
    \/ DeleteFile
    \/ clear_json_data
    \/ update_config
    \/ Restart

Spec == Init /\ [][Next]_vars

(***************************************************************************)
(* The scan loop running for ever (line 441, while True).  Cycles after    *)
(* the MaxCycles-th are not counted any more.  The transport may fail in   *)
(* the cycles before the MaxCycles-th and accepts every call from then on; *)
(* files are rewritten or deleted at most MaxEdits times; the process is   *)
(* not restarted and the admin reset is not used.  The loop is never       *)
(* stopped: a step that can be taken is taken eventually.                  *)
(***************************************************************************)
CycleRepeat ==
    /\ cycle >= MaxCycles
    /\ ScanCycle(cycle)

TransportMayFail == cycle < MaxCycles

TransportFault ==
    /\ TransportMayFail
    /\ \/ SfUploadFail
       \/ SfDeleteFail
       \/ SfNoticeFail
       \/ SplitInstructionsFail
       \/ SplitErrorMessageFail

NextLive ==
    \/ Startup
    \/ CycleStart
    \/ CycleRepeat
    \/ CycleEnd
    \/ PfVanished
    \/ PfBegin
    \/ PfSize
    \/ PfSizeFails
    \/ PfFinish
    \/ SplitBeginFails
    \/ SplitBegin
    \/ SplitChunk
    \/ SplitInstructionsOk
    \/ SplitInstructionsForwardOk
    \/ SplitErrorMessageOk
    \/ SfOpenFails
    \/ SfUploadOk
    \/ SfForward
    \/ SfNoStaleNotice
    \/ SfDeleteOk
    \/ SfNoticeOk
    \/ TransportFault
    \/ ModifyFile
    \/ DeleteFile

SpecLive == Init /\ [][NextLive]_vars /\ WF_vars(NextLive)

(***************************************************************************)
(* The chunk loop of split_and_send_zip (lines 209-231) run on its own, on *)
(* an artifact given as its sequence of bytes and with every part          *)
(* accepted by the transport.  split_and_send_zip is called for artifacts  *)
(* larger than the chunk size (line 345).                                  *)
(***************************************************************************)
\* the variables the chunk loop leaves alone
pipelinevars == <<cfgvars, file_history, file_size_cache, error_messages,
                  pc, sorted_files, pf, sp, sf, disk_history, fs,
                  notices, cycle, edits, calls, delivered, tmp_dirs, sent,
                  disk_cache, pre_reset, config_ini, events>>

Bytes == {0, 1}
Artifacts == UNION {[1..n -> Bytes] : n \in 2..MaxLen}
ChunkSizes == 1..MaxChunk

\* file.read(n) at the given position: the next n bytes, fewer at the end of
\* the file, none after it
read(data, position, n) == SubSeq(data, position + 1, Min(position + n, Len(data)))

InitSplit ==
    /\ InitPipeline
    /\ \E a \in Artifacts : \E m \in ChunkSizes :
          /\ Len(a) > m
          /\ split = [NoSplit EXCEPT !.artifact = a, !.chunk_size = m,
                                     !.file_number = 1,
                                     !.total_parts = TotalParts(Len(a), m)]

\* lines 215-231: a chunk is read, written to its chunk file and sent with
\* its caption
SplitLoopChunk ==
    /\ ~split.done
    /\ LET chunk == read(split.artifact, split.position, split.chunk_size) IN
       /\ chunk # <<>>
       /\ split' = [split EXCEPT
                       !.chunks = Append(@, chunk),
                       !.captions = Append(@, [part_number |-> split.file_number,
                                               total_parts |-> split.total_parts]),
                       !.position = @ + Len(chunk),
                       !.file_number = NextFileNumber(@)]
    /\ file_counter' = file_counter + 1
    /\ UNCHANGED pipelinevars

\* lines 215-217: the read returns no bytes, the loop ends
SplitLoopEnd ==
    /\ ~split.done
    /\ read(split.artifact, split.position, split.chunk_size) = <<>>
    /\ split' = [split EXCEPT !.done = TRUE]
    /\ UNCHANGED <<pipelinevars, file_counter>>

NextSplit == SplitLoopChunk \/ SplitLoopEnd

SpecSplit == InitSplit /\ [][NextSplit]_vars

(***************************************************************************)
(* Properties.                                                             *)
(***************************************************************************)
InProcessFile == pc \notin {"start", "config_error", "cycle"}
LedgerChanges == file_history' # file_history \/ disk_history' # disk_history

\* a step taken by the world outside the bot, not by the bot
Outside ==
    \/ ModifyFile
    \/ DeleteFile
    \/ clear_json_data
    \/ update_config
    \/ Restart

\* the chunk loop has read the file behind its handle to the end and every
\* chunk it wrote was uploaded
AllChunksDelivered ==
    /\ sp.file_number >= 2
    /\ delivered.parts = 1..(sp.file_number - 1)
    /\ sp.position >= OpenSize

\* every unit of the artifact of the current call reached the primary chat
WholeArtifactDelivered ==
    \/ pf.mode = "single" /\ delivered.single
    \/ /\ pf.mode = "split"
       /\ AllChunksDelivered
       /\ delivered.instructions

\* a unit of the current call failed for good, or a step of the split raised
DeliveryFailed == sf.result \in {"false", "raised"} \/ sp.raised

\* C1: a step of process_file changes the ledger (file_history and its
\* persisted copy) only as the final step of a call whose whole artifact was
\* delivered (the single unit, or all N chunks and the reassembly message),
\* and then only in the entry of the processed path; a call in which a chunk
\* failed for good or a step of the split raised leaves the ledger as it was.
C1_LedgerWrittenOnlyAfterWholeDelivery ==
    [][(InProcessFile /\ ~Outside) =>
         /\ LedgerChanges =>
               /\ pc = "pf_finish"
               /\ WholeArtifactDelivered
               /\ DOMAIN file_history' = DOMAIN file_history \cup {pf.file_path}
               /\ \A q \in DOMAIN file_history \ {pf.file_path} :
                     file_history'[q] = file_history[q]
         /\ DeliveryFailed => ~LedgerChanges]_vars

\* part 1 of a two-part artifact was delivered, part 2 failed for good, the
\* call is over and the path has no ledger entry
C1_Witness ==
    /\ pc = "next"
    /\ pf.mode = "split"
    /\ delivered.parts = {1}
    /\ ~pf.success
    /\ pf.file_path \notin DOMAIN file_history
    /\ disk_history = EmptyDisk

\* the current call processes a path whose last successful delivery in this
\* run carried the content the file has now
DeliveredUnchanged ==
    /\ pf.file_path \in DOMAIN pf.sent0
    /\ pf.sent0[pf.file_path] = pf.file_hash

\* C2: a process_file call for a path that was delivered successfully in an
\* earlier cycle and whose content has not changed since makes no transport
\* call (document, message, forward, delete) and leaves the ledger, which
\* holds the entry of that path, unchanged.
C2_UnchangedFileIsNoOp ==
    DeliveredUnchanged =>
        /\ calls = {}
        /\ pc \in {"next", "cycle"}
        /\ pf.file_path \in DOMAIN file_history
        /\ file_history = pf.history0

C2_Witness ==
    /\ DeliveredUnchanged
    /\ cycle = 2
    /\ pc = "next"
    /\ pf.mode = "known_hash"

\* the current call processes a path without a ledger record whose content
\* equals that of another path, delivered successfully earlier in this run
TwinDelivered ==
    /\ pf.file_path # NoPath
    /\ pf.file_path \notin DOMAIN pf.history0
    /\ \E q \in (DOMAIN pf.sent0) \ {pf.file_path} :
          /\ pf.sent0[q] = pf.file_hash
          /\ q \in DOMAIN fs
          /\ calculate_md5(q) = pf.file_hash

\* C3: a path without a ledger record whose content is byte-identical to
\* that of another path delivered before is skipped: no transport call is
\* made for it and no ledger record is created for it.
C3_DuplicateContentSkipped ==
    TwinDelivered =>
        /\ calls = {}
        /\ pc \in {"next", "cycle"}
        /\ pf.file_path \notin DOMAIN file_history
        /\ file_history = pf.history0

C3_Witness ==
    /\ TwinDelivered
    /\ pc = "next"
    /\ pf.mode = "known_hash"
    /\ Cardinality(DOMAIN file_history) = 1

IdsOf(history) == {history[q].file_id : q \in DOMAIN history}

\* C4: the file_id a commit writes is greater than every id in the ledger
\* it is written to, and the ids of the ledger are pairwise distinct; the
\* ledger loaded at a restart is no exception.
C4_SequenceIdsIncrease ==
    /\ [](\A p, q \in DOMAIN file_history :
            p # q => file_history[p].file_id # file_history[q].file_id)
    /\ [][(pc = "pf_finish" /\ pc' = "next" /\ file_history' # file_history) =>
            \A id \in IdsOf(file_history) : file_history'[pf.file_path].file_id > id]_vars

\* a process that had delivered nothing yet, so that its ledger is the one
\* it loaded at start-up after a restart, has added a second record
C4_Witness ==
    /\ pf.sent0 = EmptyMap
    /\ pc = "next"
    /\ pf.success
    /\ pf.history0 # EmptyMap
    /\ pf.file_path \notin DOMAIN pf.history0
    /\ pf.file_path \in DOMAIN file_history

\* C5: the record written after a successful delivery carries the largest
\* id of the ledger before the delivery plus one (1 on an empty ledger).
C5_IdIsMaxPlusOne ==
    (pc = "next" /\ pf.success) =>
        file_history[pf.file_path].file_id = RecoveredCounter(pf.history0) + 1

\* C6: after a 429 response carrying Retry-After d the next attempt comes
\* no sooner than d later, and send_file reports failure only after three
\* attempts failed with other errors.
C6_RateLimitConsumesNoAttempt ==
    /\ (pc = "sf_upload" /\ sf.lastFail = "rate" /\ sf.header # NoHeader)
          => sf.slept >= sf.header
    /\ sf.result = "false" => sf.errors = max_retries

\* the steps of send_file and the position of each within an attempt
InSendFile == pc \in {"sf_upload", "sf_forward", "sf_delete", "sf_notice"}
SfPhase == CASE pc = "sf_upload" -> 0
             [] pc = "sf_forward" -> 1
             [] pc = "sf_delete" -> 2
             [] pc = "sf_notice" -> 3
             [] OTHER -> 0
\* a number that grows with every step of a call and never exceeds
\* 4 * max_retries
SfMeasure == 4 * sf.attempt + SfPhase

\* C7: send_file uploads its document at most three times; after an attempt
\* that failed with an error other than a rate limit the next attempt comes
\* the fixed delay later; once the third attempt has failed there is no
\* further attempt and the call does not report success; and the call
\* terminates, as every step of it either ends the call or moves it forward
\* in the bounded order of (attempt, position in the attempt).
C7_AtMostThreeAttempts ==
    /\ [](/\ sf.uploads <= max_retries
          /\ (pc = "sf_upload" /\ sf.lastFail = "error") => sf.slept = retry_delay
          /\ (sf.uploads = max_retries /\ sf.lastFail # "none") =>
                (pc # "sf_upload" /\ sf.result # "true")
          /\ InSendFile => (sf.attempt < max_retries /\ SfMeasure < 4 * max_retries))
    /\ [][(InSendFile /\ ~Outside) => (~InSendFile' \/ SfMeasure' > SfMeasure)]_vars

C7_Witness ==
    /\ sf.uploads = max_retries
    /\ sf.errors = max_retries
    /\ sf.result = "false"

\* C8: when send_file has reported failure, error_messages holds, under the
\* path of the failed unit, the id of a notice visible on the primary chat
\* that names this unit.
C8_FailureLeavesNotice ==
    sf.result = "false" =>
        /\ sf.file_path \in DOMAIN error_messages
        /\ \E n \in notices.visible :
              /\ n.id = error_messages[sf.file_path]
              /\ n.item = sf.file_path

\* the notices send_file posted for a monitored path that are still visible
NoticesOf(path) ==
    {n \in notices.visible : n.kind = "send_file" /\ n.monitored = path}
\* the entries of error_messages that refer to such a notice
PendingOf(path) ==
    {k \in DOMAIN error_messages : \E n \in NoticesOf(path) : n.id = error_messages[k]}

\* C9: once a monitored path has been delivered successfully, no notice of
\* an earlier failed delivery of that path is visible any more and no
\* pending-error entry of the path is left.
C9_SuccessRetractsNotice ==
    (pc \in {"pf_size", "pf_finish", "next"} /\ pf.success) =>
        /\ NoticesOf(pf.file_path) = {}
        /\ PendingOf(pf.file_path) = {}

\* C10: at most one error notice of send_file is visible per monitored path.
C10_OneNoticePerPath ==
    \A p \in MonPaths : Cardinality(NoticesOf(p)) <= 1

\* C11: while a cycle runs, a candidate leaves the candidate list only by
\* being handed to process_file; an error raised for one candidate drops no
\* other candidate of the cycle.
C11_ErrorKeepsOtherCandidates ==
    [][(InProcessFile /\ ~Outside) =>
         \/ sorted_files' = sorted_files
         \/ /\ pc = "next"
            /\ sorted_files # <<>>
            /\ sorted_files' = Tail(sorted_files)]_vars

\* C12: in a split delivery the first part attempted is part 1 and an attempt
\* of a part follows the success of the part before it, in this call; once a
\* part has failed or raised, no further part is attempted in the call.  A
\* retry in a later cycle is a new call and so starts at part 1.
C12_PartsInOrder ==
    /\ [](pc = "sp_begin" => (sf = NoSf /\ delivered.parts = {}))
    /\ []((pf.mode = "split" /\ sf.result \in {"false", "raised"}) =>
             pc \in {"sp_error", "pf_finish", "next", "cycle"})
    /\ [][(pc = "sp_chunk" /\ pc' = "sf_upload") =>
            /\ sf'.part_number = sf.part_number + 1
            /\ sf.part_number > 0 => sf.result = "true"
            /\ \A j \in 1..sf.part_number : j \in delivered.parts]_vars

\* in the second cycle part 1 of a file is attempted again, whose part 2
\* failed in the first cycle
C12_Witness ==
    /\ cycle = 2
    /\ pf.mode = "split"
    /\ pc = "sf_upload"
    /\ sf.part_number = 1
    /\ \E n \in notices.visible :
          /\ n.monitored = pf.file_path
          /\ n.kind = "send_file"
          /\ n.item.name[Len(n.item.name)] = "002"

CeilDiv(s, m) == (s + m - 1) \div m
RECURSIVE Concat(_)
Concat(seqs) == IF seqs = <<>> THEN <<>> ELSE Head(seqs) \o Concat(Tail(seqs))

\* C13: when the chunk loop has ended on an artifact of S bytes with chunk
\* size M, the number of chunks written and sent is ceil(S/M) and is the
\* total announced in the caption of every part, part k being announced as
\* k; every chunk but the last has M bytes, the last has 1 to M bytes; and
\* the chunks concatenated in order are the artifact.
C13_ChunksPartitionArtifact ==
    LET S == Len(split.artifact)
        M == split.chunk_size
        N == Len(split.chunks)
    IN
    /\ \A k \in 1..N :
          /\ split.captions[k].part_number = k
          /\ split.captions[k].total_parts = CeilDiv(S, M)
    /\ split.done =>
          /\ N = CeilDiv(S, M)
          /\ \A k \in 1..(N - 1) : Len(split.chunks[k]) = M
          /\ Len(split.chunks[N]) \in 1..M
          /\ Concat(split.chunks) = split.artifact

\* five bytes were split into chunks of two: three parts, the last one short
C13_Witness ==
    /\ split.done
    /\ Len(split.artifact) = 5
    /\ split.chunk_size = 2
    /\ Len(split.chunks) = 3
    /\ Len(split.chunks[3]) = 1

\* C14: the forwarding step of send_file, whatever its outcome (forwarded,
\* bot removed from the secondary chat, transport error), leaves the attempt
\* number, the number of uploads and the sleeps of the call as they are and
\* is followed by the rest of the successful attempt; where no stale notice
\* is to be deleted that rest is the return of True, with no further upload.
C14_ForwardFailureIsSwallowed ==
    /\ [][(pc = "sf_forward" /\ ~Outside) =>
            /\ pc' = "sf_delete"
            /\ sf' = [sf EXCEPT !.forward = sf'.forward]]_vars
    /\ [][(pc = "sf_delete" /\ sf.file_path \notin DOMAIN error_messages /\ ~Outside) =>
            /\ sf'.result = "true"
            /\ sf'.uploads = sf.uploads]_vars

\* a call returned True after one upload whose forward failed
C14_Witness ==
    /\ sf.forward = "error"
    /\ sf.result = "true"
    /\ sf.uploads = 1
    /\ sf.attempt = 0

\* the pool whose permit a transport call of the given kind needs
MatchingPool(kind) == IF kind = "document" THEN "media" ELSE "message"

\* C15: every transport call of the current process_file call was made
\* holding the limiter of its pool: uploads the media limiter, all other
\* calls the message limiter.
C15_EveryCallHoldsItsPermit ==
    \A c \in calls : c.pool = MatchingPool(c.kind)

\* C16: after an admin reset that found the bot running, a file of the
\* ledger held at the reset whose content is still the recorded one is not
\* skipped as known by a process_file call of a later cycle, and no record
\* of the ledger held at the reset is in the persisted ledger.
C16_ResetIsObserved ==
    pre_reset.reset =>
        /\ (/\ pf.mode = "known_hash"
            /\ cycle > pre_reset.cycle
            /\ pf.file_path \in DOMAIN pre_reset.ledger) =>
               pre_reset.ledger[pf.file_path].hash # pf.file_hash
        /\ \A p \in DOMAIN pre_reset.ledger :
               p \in DOMAIN load_data(disk_history) =>
                  load_data(disk_history)[p] # pre_reset.ledger[p]

\* C17: when the commit of process_file returns, the ledger read back from
\* durable storage holds the record just written for the path.
C17_CommitIsDurable ==
    [][(pc = "pf_finish" /\ pf.success /\ pc' = "next") =>
          /\ pf.file_path \in DOMAIN load_data(disk_history')
          /\ load_data(disk_history')[pf.file_path] = file_history'[pf.file_path]]_vars

\* C18: with encryption enabled and compression none, or with encryption
\* enabled and an empty passphrase, the process never gets past start-up: it
\* ends in the configuration error with no cycle started and no ledger
\* loaded; so wherever the scan loop runs, encryption enabled comes with a
\* compression other than none and a non-empty passphrase.
C18_InvalidConfigNeverRuns ==
    /\ (ENABLE_ENCRYPTION /\ (COMPRESSION_LEVEL = "none" \/ ZIP_PASSWORD = "")) =>
          /\ pc \in {"start", "config_error"}
          /\ sorted_files = <<>>
          /\ file_history = EmptyMap
          /\ calls = {}
    /\ pc \notin {"start", "config_error"} =>
          (ENABLE_ENCRYPTION => (COMPRESSION_LEVEL # "none" /\ ZIP_PASSWORD # ""))

\* start-up ended in the configuration error for an empty passphrase
C18_Witness ==
    /\ pc = "config_error"
    /\ ENABLE_ENCRYPTION
    /\ COMPRESSION_LEVEL = "default"
    /\ ZIP_PASSWORD = ""

\* C19: when a cycle has rebuilt the size cache, the cache holds exactly the
\* files present in the monitored folder, each with its current size, and
\* the candidates of the cycle are in ascending order of size.
C19_CacheIsTheFilesystem ==
    [][(pc = "cycle" /\ pc' = "next") =>
          /\ DOMAIN file_size_cache' = DOMAIN fs
          /\ \A p \in DOMAIN fs : file_size_cache'[p] = ContentSize(fs[p])
          /\ \A i, j \in 1..Len(sorted_files') :
                i < j => file_size_cache'[sorted_files'[i]]
                            <= file_size_cache'[sorted_files'[j]]]_vars

\* the file exists, its extension is allowed and no ledger record carries
\* the hash of its content
Eligible(p) ==
    /\ p \in DOMAIN fs
    /\ ~ExtensionRefused(basename(p))
    /\ ~HashKnown(file_history, calculate_md5(p))

\* C20: with a valid configuration, a transport that accepts every call
\* from some cycle on and contents that stop changing, a monitored file
\* that exists, has an allowed extension and whose hash no ledger record
\* carries does not stay so for ever: it is delivered and committed (or is
\* deleted or rewritten before that).
C20_EligibleFileIsDelivered ==
    \A p \in MonPaths : [](ConfigValid => (Eligible(p) ~> ~Eligible(p)))

\* what the document of the current send_file call holds: the artifact of
\* process_file, or a chunk of the file split_and_send_zip splits
DocumentHolds == IF pf.mode = "single" THEN pf.container ELSE sp.container

\* C21: with encryption enabled, the document of every send_file call is a
\* file of a scratch directory, never the monitored source file, and holds
\* an AES encrypted container (single unit) or a chunk of one (split).
C21_EncryptedDocumentsOnly ==
    (ENABLE_ENCRYPTION /\ InSendFile) =>
        /\ sf.file_path.dir # MonitoredDir
        /\ DocumentHolds = "aes"
        /\ pf.mode = "split" =>
              /\ sp.zip_path = pf.send_path
              /\ sf.file_path = ChunkName(sp.temp_dir, basename(sp.zip_path), sf.part_number)

\* with encryption enabled, part 1 of the container of a .zip source was
\* uploaded and part 2 is about to be
C21_Witness ==
    /\ ENABLE_ENCRYPTION
    /\ EndsWith(pf.file_path, "zip")
    /\ pf.mode = "split"
    /\ pc = "sf_upload"
    /\ sf.part_number = 2
    /\ delivered.parts = {1}

\* the scratch files of the current process_file call that exist
ScratchFiles == pf.files \cup sp.files

\* C22: when split_and_send_zip has returned or raised, no file of its
\* scratch directory is left; when process_file has returned or raised, no
\* scratch file of the call is left; and no step of the bot removes or
\* changes a monitored file, also when the artifact is the source file.
C22_ScratchRemovedSourceKept ==
    /\ [](pc \in {"sp_error", "pf_finish"} => sp.files = {})
    /\ [](pc \in {"next", "cycle"} => ScratchFiles = {})
    /\ [][~Outside => fs' = fs]_vars

\* a source file sent as it is was split and delivered completely; the
\* call has returned and the source file is where it was
C22_Witness ==
    /\ pc = "next"
    /\ pf.mode = "split"
    /\ pf.success
    /\ pf.send_path = pf.file_path
    /\ delivered.parts = {1, 2}
    /\ pf.file_path \in DOMAIN fs
    /\ ScratchFiles = {}

\* every part of the split artifact of the current call was uploaded and
\* the send_file call of the last part returned True
AllPartsSucceeded ==
    /\ pf.mode = "split"
    /\ sp.file_path # NoPath
    /\ AllChunksDelivered
    /\ sf.result = "true"

\* C23: the reassembly instruction is sent only after every part succeeded
\* and before the commit, to each destination at most once; and when
\* split_and_send_zip has returned in a cycle in which every part
\* succeeded, the instruction has reached the primary destination and, with
\* forwarding enabled, the secondary destination.
C23_InstructionsSentOnce ==
    /\ pc = "sp_instructions" => (AllPartsSucceeded /\ ~delivered.instructions)
    /\ pc = "sp_instructions_forward" =>
          (AllPartsSucceeded /\ delivered.instructions /\ ~delivered.secondary)
    /\ (pc \in {"sp_chunk", "sf_upload", "sf_forward", "sf_delete", "sf_notice"}) =>
          (~delivered.instructions /\ ~delivered.secondary)
    /\ (pc \in {"sp_error", "pf_finish"} /\ ~AllPartsSucceeded) =>
          (~delivered.instructions /\ ~delivered.secondary)
    /\ (pc = "pf_finish" /\ AllPartsSucceeded) =>
          /\ delivered.instructions
          /\ ForwardsInstructions => delivered.secondary

\* the shell pattern P.* selects the file name: the name is P, a dot and
\* whatever follows
GlobMatches(pattern, name) ==
    /\ Len(name) > Len(pattern)
    /\ SubSeq(name, 1, Len(pattern)) = pattern

\* C24: the reassembly instruction that was sent names the number of chunk
\* files uploaded for the artifact, and the part pattern of its commands
\* selects every one of them.
C24_InstructionNamesTheParts ==
    delivered.instructions =>
        /\ delivered.instruction.count = Cardinality(delivered.documents)
        /\ \A d \in delivered.documents :
              GlobMatches(delivered.instruction.pattern, basename(d))

\* the document of the current send_file call was accepted by the primary
\* chat in this call
UploadSucceeded == InSendFile /\ sf.file_path \in delivered.documents

\* C25: once the upload of a send_file call has succeeded, the call makes
\* no further upload attempt, posts no error notice and does not end in
\* False or in an exception, whatever the deletion of a stale notice does.
C25_NoUploadAfterSuccess ==
    [][(UploadSucceeded /\ ~Outside) =>
         /\ pc' \notin {"sf_upload", "sf_notice"}
         /\ sf'.result \notin {"false", "raised"}]_vars

\* the records of different paths carry different hashes
DistinctHashes(history) ==
    \A p, q \in DOMAIN history : p # q => history[p].hash # history[q].hash

\* C26: no two records of different paths carry the same hash, in the
\* ledger in memory and in the ledger a restart would load.
C26_LedgerHashesDistinct ==
    /\ DistinctHashes(file_history)
    /\ DistinctHashes(load_data(disk_history))

\* a file with a ledger record was rewritten with the content recorded for
\* another path and has been skipped: the ledger keeps its two records
C26_Witness ==
    /\ pc = "next"
    /\ pf.mode = "known_hash"
    /\ pf.file_path \in DOMAIN file_history
    /\ file_history[pf.file_path].hash # pf.file_hash
    /\ \E q \in DOMAIN file_history \ {pf.file_path} :
          file_history[q].hash = pf.file_hash
====
